---------------------------- MODULE Spec2Model ----------------------------
(***************************************************************************)
(* Model of gotham's static file handlers (src/handler/static_file.rs):   *)
(* FileSystemHandler, FileHandler, normalize_path, create_file_response   *)
(* and error_response.  Paths are strings, handled character by character *)
(* the way std::path does on Unix (the only separator is "/").            *)
(***************************************************************************)
EXTENDS Naturals, Sequences, FiniteSets, TLC

(***************************************************************************)
(* Bounds of the model.                                                    *)
(***************************************************************************)
\* longest segment list the router hands over in Spec (the normalizer runs)
MaxParts == 4
\* longest segment list in SpecServe and SpecPair (the serving runs)
MaxServeParts == 3

(***************************************************************************)
(* std::path, as used by the handlers.                                     *)
(***************************************************************************)
SEP == "/"

CharAt(s, i) == SubSeq(s, i, i)

\* Path::is_absolute / has_root on Unix
is_absolute(p) == Len(p) > 0 /\ CharAt(p, 1) = SEP

\* PathBuf::push: an absolute argument replaces the buffer, otherwise it is
\* appended after a separator (added unless the buffer is empty or ends in one)
push(buf, p) ==
    LET need_sep == Len(buf) > 0 /\ CharAt(buf, Len(buf)) # SEP
    IN  IF is_absolute(p) THEN p
        ELSE IF need_sep THEN buf \o SEP \o p
        ELSE buf \o p

\* PathBuf::from_iter: push every item onto an empty buffer
RECURSIVE from_iter_acc(_, _)
from_iter_acc(buf, items) ==
    IF items = <<>> THEN buf
    ELSE from_iter_acc(push(buf, Head(items)), Tail(items))

from_iter(items) == from_iter_acc("", items)

\* the pieces of a path string between separators (empty pieces included)
RECURSIVE Pieces(_, _, _)
Pieces(s, i, cur) ==
    IF i > Len(s) THEN <<cur>>
    ELSE IF CharAt(s, i) = SEP THEN <<cur>> \o Pieces(s, i + 1, "")
    ELSE Pieces(s, i + 1, cur \o CharAt(s, i))

\* Components::parse_single_component: "." and "" yield nothing
RECURSIVE BodyComponents(_)
BodyComponents(ps) ==
    IF ps = <<>> THEN <<>>
    ELSE LET p == Head(ps)
             rest == BodyComponents(Tail(ps))
         IN  IF p = "" \/ p = "." THEN rest
             ELSE IF p = ".." THEN <<[kind |-> "ParentDir", name |-> ".."]>> \o rest
             ELSE <<[kind |-> "Normal", name |-> p]>> \o rest

\* Path::components: RootDir for a leading separator, CurDir only for a
\* leading "." of a relative path, then the body components
components(path) ==
    LET ps == Pieces(path, 1, "")
    IN  IF is_absolute(path)
        THEN <<[kind |-> "RootDir", name |-> SEP]>> \o BodyComponents(ps)
        ELSE IF Head(ps) = "."
        THEN <<[kind |-> "CurDir", name |-> "."]>> \o BodyComponents(Tail(ps))
        ELSE BodyComponents(ps)

\* the path string of a component list
RECURSIVE JoinComponents(_)
JoinComponents(cs) ==
    IF cs = <<>> THEN ""
    ELSE push(JoinComponents(SubSeq(cs, 1, Len(cs) - 1)), cs[Len(cs)].name)

\* PathBuf::pop: truncate to Path::parent, which exists when the last
\* component is Normal, CurDir or ParentDir; otherwise leave the buffer alone
pop(buf) ==
    LET cs == components(buf)
    IN  IF cs = <<>> \/ cs[Len(cs)].kind = "RootDir" THEN buf
        ELSE JoinComponents(SubSeq(cs, 1, Len(cs) - 1))

\* PathBuf::extend(&PathBuf): push each component of the argument
RECURSIVE extend_acc(_, _)
extend_acc(buf, cs) ==
    IF cs = <<>> THEN buf
    ELSE extend_acc(push(buf, Head(cs).name), Tail(cs))

extend(buf, p) == extend_acc(buf, components(p))

(***************************************************************************)
(* normalize_path                                                          *)
(***************************************************************************)
\* normalize_step with the ParentDir arm keeping the ".." instead of popping
normalize_step_keep_parent(result, p) ==
    CASE p.kind = "Normal"    -> push(result, p.name)
      [] p.kind = "ParentDir" -> push(result, "..")
      [] OTHER                -> result

\* normalize_step with the ParentDir arm dropped into the catch-all arm
normalize_step_ignore_parent(result, p) ==
    CASE p.kind = "Normal"    -> push(result, p.name)
      [] OTHER                -> result

\* one step of the fold: the match on the component
normalize_step(result, p) ==
    CASE p.kind = "Normal"    -> push(result, p.name)
      [] p.kind = "ParentDir" -> pop(result)
      [] OTHER                -> result

RECURSIVE fold_components(_, _)
fold_components(result, cs) ==
    IF cs = <<>> THEN result
    ELSE fold_components(normalize_step(result, Head(cs)), Tail(cs))

\* a normalizer that defers an escape: a ".." met on an empty accumulator is
\* remembered and cancels the next ordinary component
RECURSIVE fold_deferred(_, _, _)
fold_deferred(result, pending, cs) ==
    IF cs = <<>> THEN result
    ELSE LET p == Head(cs)
         IN  CASE p.kind = "Normal" ->
                    IF pending > 0 THEN fold_deferred(result, pending - 1, Tail(cs))
                    ELSE fold_deferred(push(result, p.name), pending, Tail(cs))
               [] p.kind = "ParentDir" ->
                    IF components(result) = <<>>
                    THEN fold_deferred(result, pending + 1, Tail(cs))
                    ELSE fold_deferred(pop(result), pending, Tail(cs))
               [] OTHER -> fold_deferred(result, pending, Tail(cs))

normalize_path_deferred(path) == fold_deferred("", 0, components(path))

normalize_path(path) == fold_components("", components(path))

(***************************************************************************)
(* The filesystem the handlers read.  A tree maps a canonical location (a *)
(* sequence of names below the process's working directory) to a node;    *)
(* perm is the read/search permission of the process on the node.         *)
(***************************************************************************)
Dir == [kind |-> "dir", perm |-> TRUE, contents |-> ""]

File(bytes) == [kind |-> "file", perm |-> TRUE, contents |-> bytes]

Denied(node) == [node EXCEPT !.perm = FALSE]

STATIC == <<"resources", "test", "static_files">>

PRIVATE == <<"resources", "test", "private_files">>

\* the tree the repository's tests are run in (resources/test)
TestTree ==
    (<<>> :> Dir) @@ (<<"resources">> :> Dir) @@ (<<"resources", "test">> :> Dir)
    @@ (STATIC :> Dir)
    @@ (STATIC \o <<"doc.html">> :> File("<html>I am a doc.</html>"))
    @@ (STATIC \o <<"styles">> :> Dir)
    @@ (STATIC \o <<"styles", "style.css">> :> File(".styled { border: none; }"))
    @@ (STATIC \o <<"scripts">> :> Dir)
    @@ (STATIC \o <<"scripts", "script.js">> :> File("console.log('I am javascript!');"))
    @@ (PRIVATE :> Dir)
    @@ (PRIVATE \o <<"secret.txt">> :> File("top secret"))

\* the same tree with the file doc.html unreadable
UnreadableFileTree ==
    [TestTree EXCEPT ![STATIC \o <<"doc.html">>] = Denied(@)]

\* the same tree with the directory styles closed to the process
ClosedDirTree ==
    [TestTree EXCEPT ![STATIC \o <<"styles">>] = Denied(@)]

\* the same tree with a public file at the relative place of the private one
ShadowTree ==
    TestTree @@ (STATIC \o <<"private_files">> :> Dir)
    @@ (STATIC \o <<"private_files", "secret.txt">> :> File("not a secret"))

\* an environment: the name of a tree and the step of create_file_response,
\* if any, at which the operating system reports an I/O failure of its own
Env(tree, fault) == [tree |-> tree, fault |-> fault]

Tree(e) ==
    CASE e.tree = "TestTree" -> TestTree
      [] e.tree = "UnreadableFileTree" -> UnreadableFileTree
      [] e.tree = "ClosedDirTree" -> ClosedDirTree
      [] e.tree = "ShadowTree" -> ShadowTree

\* std::sys::unix::decode_error_kind as far as error_response tells kinds apart
decode_error_kind(errno) ==
    CASE errno = "ENOENT" -> "NotFound"
      [] errno = "EACCES" -> "PermissionDenied"
      [] OTHER -> "Other"

Err(errno) == [ok |-> FALSE, err |-> [kind |-> decode_error_kind(errno), errno |-> errno]]

\* path resolution by the operating system: every component is looked up in
\* the directory reached so far, ".." included
RECURSIVE Walk(_, _, _)
Walk(tree, cur, cs) ==
    IF cs = <<>> THEN [ok |-> TRUE, at |-> cur]
    ELSE LET c == Head(cs)
         IN  IF tree[cur].kind # "dir" THEN Err("ENOTDIR")
             ELSE IF ~tree[cur].perm THEN Err("EACCES")
             ELSE CASE c.kind = "RootDir" -> Walk(tree, <<>>, Tail(cs))
                    [] c.kind = "CurDir" -> Walk(tree, cur, Tail(cs))
                    [] c.kind = "ParentDir" ->
                         Walk(tree, SubSeq(cur, 1, Len(cur) - 1), Tail(cs))
                    [] OTHER ->
                         IF Append(cur, c.name) \in DOMAIN tree
                         THEN Walk(tree, Append(cur, c.name), Tail(cs))
                         ELSE Err("ENOENT")

Lookup(tree, path) ==
    IF path = "" THEN Err("ENOENT") ELSE Walk(tree, <<>>, components(path))

\* Path::metadata
metadata(env, path) ==
    LET at == Lookup(Tree(env), path)
    IN  IF env.fault = "metadata" THEN Err("EIO")
        ELSE IF ~at.ok THEN at
        ELSE [ok |-> TRUE, len |-> Len(Tree(env)[at.at].contents)]

\* fs::File::open
open(env, path) ==
    LET at == Lookup(Tree(env), path)
    IN  IF env.fault = "open" THEN Err("EMFILE")
        ELSE IF ~at.ok THEN at
        ELSE IF ~Tree(env)[at.at].perm THEN Err("EACCES")
        ELSE [ok |-> TRUE, f |-> at.at]

\* Read::read_to_end on an open file: everything, or an error
read_to_end(env, f) ==
    IF Tree(env)[f].kind = "dir" THEN Err("EISDIR")
    ELSE IF env.fault = "read" THEN Err("EIO")
    ELSE [ok |-> TRUE, contents |-> Tree(env)[f].contents]

(***************************************************************************)
(* Responses                                                               *)
(***************************************************************************)
TEXT_PLAIN == "text/plain"

\* create_response with a body: the status, the bytes and their content type
create_response(status, body, mime) ==
    [status |-> status, body |-> body, content_type |-> mime]

\* Display of hyper::StatusCode: the number and the canonical reason
StatusDisplay(status) ==
    CASE status = "Ok" -> "200 OK"
      [] status = "NotFound" -> "404 Not Found"
      [] status = "Forbidden" -> "403 Forbidden"
      [] status = "InternalServerError" -> "500 Internal Server Error"

\* error_response answering 404 whatever the kind of the error
error_response_not_found(e) ==
    create_response("NotFound", StatusDisplay("NotFound"), TEXT_PLAIN)

\* error_response rendering the error itself after the status
error_response_with_detail(e) ==
    LET status ==
          CASE e.kind = "NotFound" -> "NotFound"
            [] e.kind = "PermissionDenied" -> "Forbidden"
            [] OTHER -> "InternalServerError"
    IN  create_response(status, StatusDisplay(status) \o ": " \o e.errno, TEXT_PLAIN)

error_response(e) ==
    LET status ==
          CASE e.kind = "NotFound" -> "NotFound"
            [] e.kind = "PermissionDenied" -> "Forbidden"
            [] OTHER -> "InternalServerError"
    IN  create_response(status, StatusDisplay(status), TEXT_PLAIN)

\* Path::file_name: the last component when it is a normal one
file_name(path) ==
    LET cs == components(path)
    IN  IF cs # <<>> /\ cs[Len(cs)].kind = "Normal" THEN cs[Len(cs)].name ELSE ""

\* the place of the last "." of a name, 0 when it has none
RECURSIVE LastDot(_, _)
LastDot(name, i) ==
    IF i = 0 THEN 0
    ELSE IF CharAt(name, i) = "." THEN i
    ELSE LastDot(name, i - 1)

\* Path::extension: what follows the last "." of the file name, unless the
\* name has none or only begins with it
extension(path) ==
    LET name == file_name(path)
        dot == LastDot(name, Len(name))
    IN  IF dot <= 1 THEN "" ELSE SubSeq(name, dot + 1, Len(name))

\* mime_guess::guess_mime_type_opt: the extension table, "" when unknown
guess_mime_type_opt(path) ==
    LET ext == extension(path)
    IN  CASE ext = "html" -> "text/html"
          [] ext = "css" -> "text/css"
          [] ext = "js" -> "application/javascript"
          [] ext = "txt" -> "text/plain"
          [] OTHER -> ""

\* mime_for_path without the guess: the default for every path
mime_for_path_default(path) == TEXT_PLAIN

mime_for_path(path) ==
    IF guess_mime_type_opt(path) = "" THEN TEXT_PLAIN ELSE guess_mime_type_opt(path)

\* the closure given to and_then: open the file and read all of it
read_contents(env, path) ==
    LET f == open(env, path)
    IN  IF ~f.ok THEN f ELSE read_to_end(env, f.f)

create_file_response(path, env) ==
    LET meta == metadata(env, path)
        contents == IF meta.ok THEN read_contents(env, path) ELSE meta
    IN  IF contents.ok
        THEN create_response("Ok", contents.contents, mime_for_path(path))
        ELSE error_response(contents.err)

(***************************************************************************)
(* The handlers and the requests they serve                                *)
(***************************************************************************)
VARIABLES
    handler,    \* the handler mounted on the route: FileSystemHandler or FileHandler
    env,        \* the filesystem the process runs on
    pc,         \* "routing": the router is extracting the request; "done": served
    parts,      \* FilePathExtractor.parts of the request being routed
    query,      \* the query of the request's URL
    path,       \* the path handed to create_file_response
    response,   \* the response of the request
    last        \* the previous request and its outcome, where it is kept

vars == <<handler, env, pc, parts, query, path, response, last>>

None == [none |-> TRUE]

\* FileSystemHandler::new and FileHandler::new
FileSystemHandler(root) == [kind |-> "FileSystemHandler", root |-> root]

FileHandler(fixed) == [kind |-> "FileHandler", path |-> fixed]

ROOT == "resources/test/static_files"

\* the segments the router may extract from the wildcard of a URL
NormSegs == {"a", "b", "..", ".", "", "/", "../b"}

ServeSegs == {"doc.html", "styles", "style.css", "..", "private_files", "secret.txt"}

PairSegs == {"..", "styles", "doc.html"}

Queries == {"", "v=2", "file=../private_files/secret.txt"}

NormHandlers == {FileSystemHandler(ROOT), FileSystemHandler(ROOT \o "/")}

ServeHandlers ==
    {FileSystemHandler(ROOT),
     FileHandler(ROOT \o "/doc.html"),
     FileHandler(ROOT \o "/scripts/script.js"),
     FileHandler(ROOT \o "/styles"),
     FileHandler(ROOT \o "/missing.html"),
     FileHandler("resources/test/private_files/secret.txt")}

NormEnvs == {Env("TestTree", "none")}

ServeEnvs ==
    {Env("TestTree", "none"), Env("TestTree", "metadata"), Env("TestTree", "open"),
     Env("TestTree", "read"), Env("UnreadableFileTree", "none"),
     Env("ClosedDirTree", "none"), Env("ShadowTree", "none")}

PairEnvs == {Env("TestTree", "none"), Env("ClosedDirTree", "none"), Env("TestTree", "read")}

InitWith(handlers, envs) ==
    /\ handler \in handlers
    /\ env \in envs
    /\ pc = "routing"
    /\ parts = <<>>
    /\ query = ""
    /\ path = ""
    /\ response = None
    /\ last = None

\* the router extracts one more segment of the wildcard into parts
ExtractPart(segs, max) ==
    /\ pc = "routing"
    /\ handler.kind = "FileSystemHandler"
    /\ Len(parts) < max
    /\ \E s \in segs : parts' = Append(parts, s)
    /\ UNCHANGED <<handler, env, pc, query, path, response, last>>

\* FileSystemHandler::handle joining the parts without normalize_path
FileSystemHandler_path_raw(self, state_parts) ==
    extend(self.root, from_iter(state_parts))

\* the path FileSystemHandler::handle computes from its root and the parts
FileSystemHandler_path(self, state_parts) ==
    LET base_path == self.root
        file_path == from_iter(state_parts)
    IN  extend(base_path, normalize_path(file_path))

\* FileHandler::handle serving the request's URL, query included
FileHandler_path_with_query(self, state_query) ==
    IF state_query = "" THEN self.path ELSE self.path \o "?" \o state_query

\* the path FileHandler::handle serves
FileHandler_path(self, state_query) == self.path

FileSystemHandler_handle ==
    /\ pc = "routing"
    /\ handler.kind = "FileSystemHandler"
    /\ path' = FileSystemHandler_path(handler, parts)
    /\ response' = create_file_response(path', env)
    /\ pc' = "done"
    /\ UNCHANGED <<handler, env, parts, query, last>>

FileHandler_handle ==
    /\ pc = "routing"
    /\ handler.kind = "FileHandler"
    /\ \E q \in Queries : query' = q
    /\ path' = FileHandler_path(handler, query')
    /\ response' = create_file_response(path', env)
    /\ pc' = "done"
    /\ UNCHANGED <<handler, env, parts, last>>

\* the response is written back and the next request arrives
NextRequest ==
    /\ pc = "done"
    /\ pc' = "routing"
    /\ parts' = <<>>
    /\ query' = ""
    /\ path' = ""
    /\ response' = None
    /\ last' = None
    /\ UNCHANGED <<handler, env>>

\* the same, the served request kept for comparison with the next one
NextRequestKept ==
    /\ pc = "done"
    /\ pc' = "routing"
    /\ parts' = <<>>
    /\ query' = ""
    /\ path' = ""
    /\ response' = None
    /\ last' = [query |-> query, path |-> path, response |-> response]
    /\ UNCHANGED <<handler, env>>

\* the rooted handler on the test tree, all kinds of segments
Init == InitWith(NormHandlers, NormEnvs)

Next ==
    \/ ExtractPart(NormSegs, MaxParts)
    \/ FileSystemHandler_handle
    \/ NextRequest

Spec == Init /\ [][Next]_vars

\* both handlers on every environment
InitServe == InitWith(ServeHandlers, ServeEnvs)

NextServe ==
    \/ ExtractPart(ServeSegs, MaxServeParts)
    \/ FileSystemHandler_handle
    \/ FileHandler_handle
    \/ NextRequest

SpecServe == InitServe /\ [][NextServe]_vars

\* both handlers, two requests in a row
InitPair == InitWith(ServeHandlers, PairEnvs)

NextPair ==
    \/ ExtractPart(PairSegs, MaxServeParts)
    \/ FileSystemHandler_handle
    \/ FileHandler_handle
    \/ NextRequestKept

SpecPair == InitPair /\ [][NextPair]_vars

(***************************************************************************)
(* Properties of the rooted handler's path (checked under Spec)            *)
(***************************************************************************)
Served == pc = "done"

Rooted == handler.kind = "FileSystemHandler"

IsPrefix(p, s) == Len(p) <= Len(s) /\ SubSeq(s, 1, Len(p)) = p

\* whether s holds t as a substring
Contains(s, t) ==
    \E i \in 1..(Len(s) - Len(t) + 1) : SubSeq(s, i, i + Len(t) - 1) = t

\* a segment that is an ordinary name
Ordinary(s) == s \notin {"", ".", ".."} /\ ~Contains(s, SEP)

\* the names left of a component list when ".." removes the name before it
\* and is dropped when there is none
RECURSIVE Absorb(_, _)
Absorb(names, cs) ==
    IF cs = <<>> THEN names
    ELSE LET c == Head(cs)
         IN  CASE c.kind = "Normal" -> Absorb(Append(names, c.name), Tail(cs))
               [] c.kind = "ParentDir" ->
                    Absorb(SubSeq(names, 1, Len(names) - 1), Tail(cs))
               [] OTHER -> Absorb(names, Tail(cs))

\* a root followed by names, each after one separator
RECURSIVE Under(_, _)
Under(root, names) ==
    IF names = <<>> THEN root
    ELSE Under(IF root # "" /\ CharAt(root, Len(root)) = SEP
               THEN root \o Head(names)
               ELSE root \o SEP \o Head(names), Tail(names))

RemoveAt(seq, i) == SubSeq(seq, 1, i - 1) \o SubSeq(seq, i + 1, Len(seq))

\* C1: whatever segments FileSystemHandler::handle is given, the path it hands
\* to create_file_response starts with the configured root, as a string and
\* component by component, and every component after the root's is an
\* ordinary name: no ".." survives after the prefix.
C1_PathStaysUnderRoot ==
    (Served /\ Rooted) =>
        LET cs == components(path)
            rs == components(handler.root)
        IN  /\ IsPrefix(handler.root, path)
            /\ Len(rs) <= Len(cs)
            /\ SubSeq(cs, 1, Len(rs)) = rs
            /\ \A i \in (Len(rs) + 1)..Len(cs) : cs[i].kind = "Normal"

\* a request escaping twice, through a root marker, then naming a file
C1_Witness ==
    /\ Served /\ Rooted
    /\ parts = <<"..", "/", "..", "a">>
    /\ path = ROOT \o "/a"

\* C8: a ".." that normalize_path meets on an empty accumulator is absorbed:
\* the normalized path is exactly the names that remain when each ".." removes
\* the name before it, if any, so the ordinary names after an excess ".." are
\* all kept; for the components a, .., .., b the result is b.
C8_ExcessParentAbsorbed ==
    (Served /\ Rooted) =>
        LET cs == components(from_iter(parts))
        IN  /\ path = Under(handler.root, Absorb(<<>>, cs))
            /\ (parts = <<"a", "..", "..", "b">>) => (path = Under(handler.root, <<"b">>))

C8_Witness ==
    /\ Served /\ Rooted
    /\ parts = <<"a", "..", "..", "b">>
    /\ handler.root = ROOT
    /\ path = ROOT \o "/b"

\* N ordinary segments followed by N ".." segments
NThenN(ps) ==
    /\ Len(ps) % 2 = 0
    /\ \A i \in 1..Len(ps) :
         IF 2 * i <= Len(ps) THEN Ordinary(ps[i]) ELSE ps[i] = ".."

\* C9: for N ordinary segments followed by N ".." segments the normalized
\* path is empty, and the rooted handler's path is exactly its root.
C9_RoundTripCancels ==
    (Served /\ Rooted /\ NThenN(parts)) =>
        /\ normalize_path(from_iter(parts)) = ""
        /\ path = handler.root

C9_Witness ==
    /\ Served /\ Rooted
    /\ parts = <<"a", "b", "..", "..">>
    /\ path = handler.root

\* C10: a segment that is ".", "" or a root marker is dropped with no other
\* effect: the path served equals the path for the same segments without it.
C10_NonSubstantiveDropped ==
    (Served /\ Rooted) =>
        \A i \in 1..Len(parts) :
            (parts[i] \in {".", "", "/"}) =>
                path = FileSystemHandler_path(handler, RemoveAt(parts, i))

(***************************************************************************)
(* Properties of the responses (checked under SpecServe)                   *)
(***************************************************************************)
IsUnder(loc, dir) == Len(dir) <= Len(loc) /\ SubSeq(loc, 1, Len(dir)) = dir

\* the places of the tree below the rooted handler's root, and the others
FilesUnderRoot(tree) ==
    {loc \in DOMAIN tree : tree[loc].kind = "file" /\ IsUnder(loc, STATIC)}

FilesOutsideRoot(tree) ==
    {loc \in DOMAIN tree : tree[loc].kind = "file" /\ ~IsUnder(loc, STATIC)}

\* the segments leave the root: read left to right, some ".." comes when no
\* ordinary segment is left to cancel
RECURSIVE Escapes(_, _)
Escapes(ps, depth) ==
    IF ps = <<>> THEN FALSE
    ELSE IF Head(ps) = ".." THEN depth = 0 \/ Escapes(Tail(ps), depth - 1)
    ELSE IF Ordinary(Head(ps)) THEN Escapes(Tail(ps), depth + 1)
    ELSE Escapes(Tail(ps), depth)

\* where the operating system would take the segments, joined to the root
\* as they are
RawTarget(tree, root, ps) == Lookup(tree, Under(root, ps))

EndsWith(s, suffix) ==
    Len(suffix) <= Len(s) /\ SubSeq(s, Len(s) - Len(suffix) + 1, Len(s)) = suffix

\* the metadata lookup, the open and the full read of the served path succeed
ReadSucceeds ==
    /\ metadata(env, path).ok
    /\ open(env, path).ok
    /\ read_to_end(env, open(env, path).f).ok

\* C3: when the served path is an existing, readable regular file (metadata,
\* open and read all succeed) the response is 200, its body is the file's
\* contents byte for byte, and its content type is the MIME type of the
\* path's extension: text/html, text/css, application/javascript for .html,
\* .css, .js.
C3_FileServed ==
    (Served /\ ReadSucceeds) =>
        LET at == Lookup(Tree(env), path).at
        IN  /\ Tree(env)[at].kind = "file"
            /\ response.status = "Ok"
            /\ response.body = Tree(env)[at].contents
            /\ EndsWith(path, ".html") => response.content_type = "text/html"
            /\ EndsWith(path, ".css") => response.content_type = "text/css"
            /\ EndsWith(path, ".js") => response.content_type = "application/javascript"
            /\ EndsWith(path, ".txt") => response.content_type = "text/plain"

C3_Witness ==
    /\ Served /\ Rooted
    /\ parts = <<"styles", "style.css">>
    /\ response = [status |-> "Ok", body |-> ".styled { border: none; }",
                   content_type |-> "text/css"]

\* the I/O error create_file_response meets first, if any
FirstError ==
    IF ~metadata(env, path).ok THEN metadata(env, path)
    ELSE IF ~open(env, path).ok THEN open(env, path)
    ELSE read_to_end(env, open(env, path).f)

AllContents(tree) == {tree[loc].contents : loc \in {l \in DOMAIN tree : tree[l].kind = "file"}}

\* C4: when the metadata lookup or the open-and-read step fails, the request
\* still ends with a response, whose status is 404 for a "does not exist"
\* failure, 403 for "permission denied" and 500 for any other failure, whose
\* content type is text/plain, and whose body holds no file's bytes.
C4_FailureBecomesResponse ==
    (Served /\ ~ReadSucceeds) =>
        LET e == FirstError.err
        IN  /\ response # None
            /\ (e.errno = "ENOENT") => response.status = "NotFound"
            /\ (e.errno = "EACCES") => response.status = "Forbidden"
            /\ (e.errno \notin {"ENOENT", "EACCES"}) =>
                 response.status = "InternalServerError"
            /\ response.content_type = "text/plain"
            /\ response.body \notin AllContents(Tree(env))

\* the open of an unreadable file fails after its metadata was read
C4_Witness ==
    /\ Served /\ Rooted
    /\ env = Env("UnreadableFileTree", "none")
    /\ parts = <<"doc.html">>
    /\ metadata(env, path).ok
    /\ response = [status |-> "Forbidden", body |-> "403 Forbidden",
                   content_type |-> "text/plain"]

\* C5: when the served path is a directory, the root itself included (and
\* the system reports no I/O failure of its own), the response is 404.
C5_DirectoryIsNotFound ==
    (Served /\ env.fault = "none" /\ Lookup(Tree(env), path).ok
            /\ Tree(env)[Lookup(Tree(env), path).at].kind = "dir")
        => response.status = "NotFound"

(***************************************************************************)
(* Properties of two requests in a row (checked under SpecPair)            *)
(***************************************************************************)
Fixed == handler.kind = "FileHandler"

\* C6: FileHandler::handle serves the path it was constructed with, whatever
\* the request's URL and query; two requests to it, on the same filesystem,
\* get the same path and the same status, content type and body.
C6_FixedPathServed ==
    (Served /\ Fixed) =>
        /\ path = handler.path
        /\ (last # None) =>
             /\ last.path = path
             /\ last.response.status = response.status
             /\ last.response.content_type = response.content_type
             /\ last.response.body = response.body

\* two requests with different queries, both served the bound file
C6_Witness ==
    /\ Served /\ Fixed
    /\ last # None
    /\ last.query # query
    /\ last.query = "file=../private_files/secret.txt"
    /\ handler.path = ROOT \o "/doc.html"
    /\ response = [status |-> "Ok", body |-> "<html>I am a doc.</html>",
                   content_type |-> "text/html"]

IsError(r) == r # None /\ r.status # "Ok"

LastFailed == last # None /\ IsError(last.response)

\* C7: the body of an error response is the plain-text rendering of its
\* status and nothing else: it is text/plain, it holds neither the served
\* path nor the root, and two failing requests that get the same status,
\* for whatever paths and underlying errors, get the same body and content
\* type.
C7_ErrorBodyIsStatusOnly ==
    (Served /\ IsError(response)) =>
        /\ response.content_type = "text/plain"
        /\ response.body \in {"404 Not Found", "403 Forbidden", "500 Internal Server Error"}
        /\ (path # "") => ~Contains(response.body, path)
        /\ (LastFailed /\ last.response.status = response.status) =>
             /\ last.response.body = response.body
             /\ last.response.content_type = response.content_type

\* two failing requests for different paths, failing differently (a read of
\* a directory, a lookup through a regular file), both answered 500
C7_Witness ==
    /\ Served /\ Rooted
    /\ IsError(response) /\ LastFailed
    /\ last.path # path
    /\ last.path = ROOT \o "/styles"
    /\ path = ROOT \o "/doc.html/styles"
    /\ FirstError.err.errno = "ENOTDIR"
    /\ response.status = "InternalServerError"
    /\ last.response.status = "InternalServerError"

=============================================================================
